---- MODULE Spec2Model ----
(***************************************************************************)
(* Motion Sculpture (src/main.js, second MotionSculpture class, the        *)
(* multi-stroke variant): session control, sensor handlers, the physics    *)
(* tick, the stroke store, the ribbon builder and record/replay.           *)
(*                                                                         *)
(* Numbers.  JavaScript doubles are modelled in fixed point, in hundredths *)
(* (1.0 is 100): lengths, accelerations, velocities, energies, rotation    *)
(* rates and widths.  Times are in milliseconds.  A product of two         *)
(* fixed-point values is divided by 100, rounding toward zero.  Device     *)
(* orientation angles are multiples of 90 degrees, for which the rotation  *)
(* that THREE.Euler/Quaternion compute is an exact signed permutation.     *)
(***************************************************************************)
EXTENDS Integers, Sequences, FiniteSets, TLC

\* ---------------------------------------------------------------- bounds
MaxLog == 3          \* entries recordedData may hold
MaxStrokes == 3      \* strokes the store may hold
MaxStarts == 2       \* startExperience calls over a behaviour
MaxEvents == 2       \* rotation-rate samples per session
MaxStill == 2        \* stillnessFrames saturates here (it is only compared with 1)
MAX_POINTS == 2      \* this.MAX_POINTS, 20000 in the source, scaled to the log length
MaxPath == 4         \* points of a path given to the ribbon builder
MaxAnyLog == 2       \* log entries of a session run under arbitrary inputs

NULL == <<>>              \* null / undefined (vectors, objects)
Colors == {"#00ffff", "#ff00ff"}
FrameMs == {10, 20}                          \* time between animation frames
LongGap == 2000                              \* a frame gap after the tab was in the background
AccInputs == {NULL, <<200, 0, 0>>}           \* e.acceleration (2.0 along x)
GentleAccInputs == {<<20, 0, 0>>, <<200, 0, 0>>}  \* e.acceleration (0.2 and 2.0 along x)
RotInputs == {NULL, <<40000, 0, 0>>}         \* e.rotationRate (400 deg/s)
\* deviceorientation: <<alpha, beta, gamma>> in degrees, NULL when e.alpha is null
OrientInputs == {NULL, <<0, 0, 0>>, <<90, 0, 0>>}

\* ------------------------------------------------------ program constants
SAMPLE_RATE == 60
MinSpacing == 30         \* 0.3
Deadzone == 90           \* 0.9

\* ------------------------------------------------------------ arithmetic
Abs(a) == IF a < 0 THEN -a ELSE a

Quot(a, b) == IF a >= 0 THEN a \div b ELSE -((-a) \div b)

Mul(a, b) == Quot(a * b, 100)

\* Math.sqrt, rounded down: bisection on [lo, hi].
RECURSIVE SqrtIter(_, _, _)
SqrtIter(n, lo, hi) ==
    IF lo >= hi THEN lo
    ELSE LET mid == (lo + hi + 1) \div 2
             low == mid * mid <= n
         IN  SqrtIter(n, IF low THEN mid ELSE lo, IF low THEN hi ELSE mid - 1)

ISqrt(n) == SqrtIter(n, 0, 46340)

Clamp(v, lo, hi) == IF v < lo THEN lo ELSE IF v > hi THEN hi ELSE v

\* --------------------------------------------------------- THREE.Vector3
Zero3 == <<0, 0, 0>>

VAdd(a, b) == <<a[1] + b[1], a[2] + b[2], a[3] + b[3]>>

VSub(a, b) == <<a[1] - b[1], a[2] - b[2], a[3] - b[3]>>

MultiplyScalar(v, s) == <<Mul(v[1], s), Mul(v[2], s), Mul(v[3], s)>>

Length(v) == ISqrt(v[1] * v[1] + v[2] * v[2] + v[3] * v[3])

DistanceTo(a, b) == Length(VSub(a, b))

\* v / s
DivideScalar(v, s) == <<Quot(v[1] * 100, s), Quot(v[2] * 100, s), Quot(v[3] * 100, s)>>

\* length() || 1
OrOne(len) == IF len = 0 THEN 100 ELSE len

Normalize(v) == DivideScalar(v, OrOne(Length(v)))

Cross(a, b) ==
    <<Mul(a[2], b[3]) - Mul(a[3], b[2]),
      Mul(a[3], b[1]) - Mul(a[1], b[3]),
      Mul(a[1], b[2]) - Mul(a[2], b[1])>>

\* t in thousandths
Lerp(a, b, t) ==
    <<a[1] + Quot((b[1] - a[1]) * t, 1000),
      a[2] + Quot((b[2] - a[2]) * t, 1000),
      a[3] + Quot((b[3] - a[3]) * t, 1000)>>

\* ----------------------------------------- THREE.Euler / THREE.Quaternion
Cos90(deg) ==
    LET r == deg % 360
    IN  IF r = 0 THEN 1 ELSE IF r = 180 THEN -1 ELSE 0

Sin90(deg) ==
    LET r == deg % 360
    IN  IF r = 90 THEN 1 ELSE IF r = 270 THEN -1 ELSE 0

Identity3 == <<<<1, 0, 0>>, <<0, 1, 0>>, <<0, 0, 1>>>>

\* Euler.set(x, y, z, 'YXZ') followed by Quaternion.setFromEuler, as the
\* rotation matrix of that quaternion (rows).
SetFromEuler(x, y, z) ==
    LET a == Cos90(x)
        b == Sin90(x)
        c == Cos90(y)
        d == Sin90(y)
        e == Cos90(z)
        f == Sin90(z)
    IN  <<<<c * e + d * f * b, d * e * b - c * f, a * d>>,
          <<a * f, a * e, -b>>,
          <<c * f * b - d * e, d * f + c * e * b, a * c>>>>

ApplyQuaternion(v, q) ==
    <<q[1][1] * v[1] + q[1][2] * v[2] + q[1][3] * v[3],
      q[2][1] * v[1] + q[2][2] * v[2] + q[2][3] * v[3],
      q[3][1] * v[1] + q[3][2] * v[2] + q[3][3] * v[3]>>

\* ------------------------------------------------------- ribbon builder
\* The tangent at point k (1-based): forward difference, backward at the end.
Tangent(points, k) ==
    IF k < Len(points)
    THEN Normalize(VSub(points[k + 1], points[k]))
    ELSE Normalize(VSub(points[k], points[k - 1]))

\* Variant of Side: the first point is seeded only when no build ran before.
SideCarried(side, k, tangent) ==
    IF side = NULL
    THEN Normalize(Cross(IF Abs(tangent[2]) > 90 THEN <<100, 0, 0>> ELSE <<0, 100, 0>>,
                         tangent))
    ELSE Normalize(Cross(Normalize(Cross(tangent, side)), tangent))

\* Variant of Side: the new side is tangent x binormal.
SideFlipped(side, k, tangent) ==
    IF side = NULL \/ k = 1
    THEN Normalize(Cross(IF Abs(tangent[2]) > 90 THEN <<100, 0, 0>> ELSE <<0, 100, 0>>,
                         tangent))
    ELSE Normalize(Cross(tangent, Normalize(Cross(tangent, side))))

\* The value the loop body leaves in this._lastSide at point k.
Side(side, k, tangent) ==
    IF side = NULL \/ k = 1
    THEN Normalize(Cross(IF Abs(tangent[2]) > 90 THEN <<100, 0, 0>> ELSE <<0, 100, 0>>,
                         tangent))
    ELSE Normalize(Cross(Normalize(Cross(tangent, side)), tangent))

\* v1 and v2 of a point, as they are written to the positions array.
VertexPair(p, offset) == VAdd(p, offset) \o VSub(p, offset)

RECURSIVE RibbonVertices(_, _, _, _, _, _, _)

\* The rest of the loop body at point k once the side vector is known.
RibbonEmit(points, energies, widthMult, minWidth, k, side, positions) ==
    RibbonVertices(points, energies, widthMult, minWidth, k + 1, side,
                   positions \o VertexPair(points[k],
                                           MultiplyScalar(side, minWidth
                                                + Mul(energies[k], widthMult))))

\* The vertex loop of createRibbonGeometry from point k (1-based) on;
\* side is this._lastSide, positions the Float32Array filled so far.
RibbonVertices(points, energies, widthMult, minWidth, k, side, positions) ==
    IF k > Len(points) THEN [positions |-> positions, lastSide |-> side]
    ELSE RibbonEmit(points, energies, widthMult, minWidth, k,
                    Side(side, k, Tangent(points, k)), positions)

\* Variant of RibbonIndices: the segment loop runs one iteration too far.
RECURSIVE RibbonIndicesOneMore(_, _)
RibbonIndicesOneMore(count, i) ==
    IF i >= count THEN <<>>
    ELSE <<i * 2, i * 2 + 1, i * 2 + 2, i * 2 + 1, i * 2 + 3, i * 2 + 2>>
         \o RibbonIndicesOneMore(count, i + 1)

\* The index loop of createRibbonGeometry from segment i (0-based) on.
RECURSIVE RibbonIndices(_, _)
RibbonIndices(count, i) ==
    IF i >= count - 1 THEN <<>>
    ELSE <<i * 2, i * 2 + 1, i * 2 + 2, i * 2 + 1, i * 2 + 3, i * 2 + 2>>
         \o RibbonIndices(count, i + 1)

\* The BufferGeometry made of the vertex loop's result r.
Geometry(r, count) ==
    [geo |-> [position |-> r.positions, index |-> RibbonIndices(count, 0)],
     lastSide |-> r.lastSide]

\* Result: the BufferGeometry (position attribute, index) and the value
\* left in this._lastSide.
CreateRibbonGeometry(points, energies, widthMult, minWidth, side) ==
    Geometry(RibbonVertices(points, energies, widthMult, minWidth, 1, side, <<>>),
             Len(points))

\* A mesh is represented by its geometry; creating the mesh and replacing
\* the geometry of an existing mesh both leave the stroke with the new one.
SetMeshes(stroke, ribbonGeo, core) ==
    [stroke |-> [stroke EXCEPT !.ribbonMesh = ribbonGeo, !.coreMesh = core.geo],
     lastSide |-> core.lastSide]

\* updateStrokeGeometry after the ribbon geometry was built
BuildCore(stroke, ribbon) ==
    SetMeshes(stroke, ribbon.geo,
              CreateRibbonGeometry(stroke.points, stroke.energies, 40, 10,
                                   ribbon.lastSide))
\* Variant of UpdateStrokeGeometry: the meshes are built once and kept.
UpdateStrokeGeometryOnce(stroke, side) ==
    IF Len(stroke.points) < 2 \/ stroke.ribbonMesh # NULL
    THEN [stroke |-> stroke, lastSide |-> side]
    ELSE BuildCore(stroke,
                   CreateRibbonGeometry(stroke.points, stroke.energies, 120, 20, side))

\* updateStrokeGeometry(stroke)
UpdateStrokeGeometry(stroke, side) ==
    IF Len(stroke.points) < 2 THEN [stroke |-> stroke, lastSide |-> side]
    ELSE BuildCore(stroke,
                   CreateRibbonGeometry(stroke.points, stroke.energies, 120, 20, side))

\* ---------------------------------------------------------- stroke store
NewStroke(color) ==
    [points |-> <<>>, energies |-> <<>>, color |-> color,
     ribbonMesh |-> NULL, coreMesh |-> NULL]

\* Variant of CreateNewStroke: the early return ignores isReplaying.
CreateNewStrokeLiveOnly(store, recording, replaying, color) ==
    IF ~recording THEN store
    ELSE Append(store, NewStroke(color))

\* Variant of CreateNewStroke: only a replay opens strokes.
CreateNewStrokeReplayOnly(store, recording, replaying, color) ==
    IF ~replaying THEN store
    ELSE Append(store, NewStroke(color))

\* createNewStroke() on the store
CreateNewStroke(store, recording, replaying, color) ==
    IF ~recording /\ ~replaying THEN store
    ELSE Append(store, NewStroke(color))

\* The store once the current stroke was rebuilt (g: stroke and _lastSide).
Pushed(store, g) ==
    [strokes |-> [store EXCEPT ![Len(store)] = g.stroke],
     lastSide |-> g.lastSide, outcome |-> "pushed"]

\* Variant of Push: the point goes to the first stroke of the store.
PushFirst(store, side, p, e) ==
    [strokes |-> [store EXCEPT ![1] = [@ EXCEPT !.points = Append(@, p),
                                                !.energies = Append(@, e)]],
     lastSide |-> side, outcome |-> "pushed"]

\* push to the current stroke and rebuild its geometry
Push(store, side, p, e) ==
    Pushed(store,
           UpdateStrokeGeometry([store[Len(store)] EXCEPT
                                    !.points = Append(@, p),
                                    !.energies = Append(@, e)], side))

\* addPoint from the lookup of the current stroke on; outcome tells which
\* path the call took: "throw" (no current stroke), "rejected" or "pushed".
AddToCurrent(store, side, p, e) ==
    IF Len(store) = 0
    THEN [strokes |-> store, lastSide |-> side, outcome |-> "throw"]
    ELSE IF /\ Len(store[Len(store)].points) > 0
            /\ DistanceTo(p, store[Len(store)].points[Len(store[Len(store)].points)])
                   < MinSpacing
         THEN [strokes |-> store, lastSide |-> side, outcome |-> "rejected"]
         ELSE Push(store, side, p, e)

\* Variant of AddPoint: every call opens a stroke of its own.
AddPointFresh(store, side, recording, replaying, color, p, e) ==
    Push(Append(store, NewStroke(color)), side, p, e)

\* Variant of AddPoint: no minimum-spacing test.
AddPointNoSpacing(store, side, recording, replaying, color, p, e) ==
    Push(IF Len(store) = 0 THEN Append(store, NewStroke(color)) ELSE store,
         side, p, e)

\* addPoint(p, e) on the store
AddPoint(store, side, recording, replaying, color, p, e) ==
    AddToCurrent(IF Len(store) = 0
                 THEN CreateNewStroke(store, recording, replaying, color)
                 ELSE store,
                 side, p, e)

\* ------------------------------------------------------------------ state
VARIABLES
    isRecording, isPainting, isReplaying,   \* session flags
    recordedData,                           \* the session log
    strokes,                                \* the stroke store
    currentColor,
    pos, vel, acc, orientation,             \* physics state
    energyAvg, stillnessFrames, accLowPass, rotationMag,
    latestAcc,                              \* sample staged by _onDeviceMotion
    sinceSample,                            \* performance.now() - lastSampleTime
    replayIdx,                              \* -1: not yet assigned
    lastSide,                               \* this._lastSide
    onDeviceMotion, onDeviceOrientation,    \* handler last created (0: none)
    motionListeners, orientationListeners,  \* handlers attached to window
    nListeners,                             \* handlers created so far
    pendingStarts,                          \* startExperience calls awaiting permission
    permissionOverlay,                      \* the permission overlay is shown
    nEvents,                                \* rotation-rate samples of this session
    addCall,                                \* the addPoint call of the last step
    phase, liveStore, replayStore,          \* observer of record/replay scenarios
    points, energies,                       \* the single-curve class's arrays
    lastDecimated                           \* its last addPoint decimated them

flags == <<isRecording, isPainting, isReplaying>>
motion == <<pos, vel, acc, orientation, energyAvg, stillnessFrames, accLowPass,
            rotationMag, latestAcc>>
listeners == <<onDeviceMotion, onDeviceOrientation, motionListeners,
               orientationListeners, nListeners>>
observer == <<phase, liveStore, replayStore>>
curve == <<points, energies, lastDecimated>>
multiStroke == <<flags, recordedData, strokes, currentColor, motion, sinceSample,
                 replayIdx, lastSide, listeners, pendingStarts, permissionOverlay,
                 nEvents, addCall, observer>>
vars == <<multiStroke, curve>>

\* What a stroke store holds, without the cached meshes.
Content(store) ==
    [i \in 1..Len(store) |->
        [points |-> store[i].points, energies |-> store[i].energies,
         color |-> store[i].color]]

\* constructor
Init ==
    /\ isRecording = FALSE
    /\ isPainting = TRUE
    /\ isReplaying = FALSE
    /\ recordedData = <<>>
    /\ strokes = <<>>
    /\ currentColor = "#00ffff"
    /\ pos = Zero3
    /\ vel = Zero3
    /\ acc = Zero3
    /\ orientation = Identity3
    /\ energyAvg = 0
    /\ stillnessFrames = 0
    /\ accLowPass = Zero3
    /\ rotationMag = 0
    /\ latestAcc = NULL
    /\ sinceSample = 0
    /\ replayIdx = -1
    /\ lastSide = NULL
    /\ onDeviceMotion = 0
    /\ onDeviceOrientation = 0
    /\ motionListeners = {}
    /\ orientationListeners = {}
    /\ nListeners = 0
    /\ pendingStarts = 0
    /\ permissionOverlay = FALSE
    /\ points = <<>>
    /\ energies = <<>>
    /\ lastDecimated = FALSE
    /\ nEvents = 0
    /\ addCall = NULL
    /\ phase = "idle"
    /\ liveStore = NULL
    /\ replayStore = NULL

\* ------------------------------------------------------------- UI events
\* paintBtn click
PaintClick ==
    /\ isPainting' = ~isPainting
    /\ strokes' = IF isPainting'
                  THEN CreateNewStroke(strokes, isRecording, isReplaying, currentColor)
                  ELSE strokes
    /\ Len(strokes') <= MaxStrokes
    /\ phase' = IF phase \in {"replay1", "done1", "replay2", "done2"}
                THEN "other" ELSE phase
    /\ addCall' = NULL
    /\ UNCHANGED <<isRecording, isReplaying, recordedData, currentColor, motion,
                   sinceSample, replayIdx, lastSide, listeners, pendingStarts, permissionOverlay, curve,
                   nEvents, liveStore, replayStore>>

\* colorPicker input
ColorInput(c) ==
    /\ currentColor' = c
    /\ strokes' = IF isPainting
                  THEN CreateNewStroke(strokes, isRecording, isReplaying, c)
                  ELSE strokes
    /\ Len(strokes') <= MaxStrokes
    /\ phase' = IF phase \in {"replay1", "done1", "replay2", "done2"}
                THEN "other" ELSE phase
    /\ addCall' = NULL
    /\ UNCHANGED <<flags, recordedData, motion, sinceSample, replayIdx, lastSide,
                   listeners, pendingStarts, permissionOverlay, curve, nEvents, liveStore, replayStore>>

\* -------------------------------------------------------- session control
\* startExperience up to its await; limit bounds the calls of a behaviour
StartClick(limit) ==
    /\ nListeners + pendingStarts < limit
    /\ pendingStarts' = pendingStarts + 1
    /\ addCall' = NULL
    /\ UNCHANGED <<flags, recordedData, strokes, currentColor, motion, sinceSample,
                   replayIdx, lastSide, listeners, permissionOverlay, curve, nEvents,
                   observer>>

\* a refused start that clears the log before returning
StartDeniedResets ==
    /\ pendingStarts > 0
    /\ pendingStarts' = pendingStarts - 1
    /\ permissionOverlay' = TRUE
    /\ UNCHANGED curve
    /\ recordedData' = <<>>
    /\ addCall' = NULL
    /\ UNCHANGED <<flags, strokes, currentColor, motion, sinceSample,
                   replayIdx, lastSide, listeners, nEvents, observer>>

\* startExperience resumed with granted = false
StartDenied ==
    /\ pendingStarts > 0
    /\ pendingStarts' = pendingStarts - 1
    /\ permissionOverlay' = TRUE
    /\ UNCHANGED curve
    /\ addCall' = NULL
    /\ UNCHANGED <<flags, recordedData, strokes, currentColor, motion, sinceSample,
                   replayIdx, lastSide, listeners, nEvents, observer>>

\* startExperience resumed with granted = true: resetData, the flags, the
\* first stroke, lastSampleTime and setupMotionListeners
StartGranted ==
    /\ pendingStarts > 0
    /\ pendingStarts' = pendingStarts - 1
    /\ permissionOverlay' = FALSE
    /\ UNCHANGED curve
    /\ recordedData' = <<>>
    /\ pos' = Zero3
    /\ vel' = Zero3
    /\ acc' = Zero3
    /\ energyAvg' = 0
    /\ isRecording' = TRUE
    /\ isPainting' = TRUE
    /\ accLowPass' = Zero3
    /\ strokes' = CreateNewStroke(<<>>, TRUE, isReplaying, currentColor)
    /\ sinceSample' = 0
    /\ nListeners' = nListeners + 1
    /\ onDeviceMotion' = nListeners'
    /\ onDeviceOrientation' = nListeners'
    /\ motionListeners' = motionListeners \cup {nListeners'}
    /\ orientationListeners' = orientationListeners \cup {nListeners'}
    /\ nEvents' = 0
    /\ addCall' = NULL
    /\ phase' = "live"
    /\ liveStore' = NULL
    /\ replayStore' = NULL
    /\ UNCHANGED <<isReplaying, currentColor, orientation, stillnessFrames,
                   rotationMag, latestAcc, replayIdx, lastSide>>

StopExperience ==
    /\ isRecording' = FALSE
    /\ isPainting' = FALSE
    /\ motionListeners' = motionListeners \ {onDeviceMotion}
    /\ orientationListeners' = orientationListeners \ {onDeviceOrientation}
    /\ phase' = IF phase \in {"live", "stopped"} THEN "stopped"
                ELSE IF phase = "interrupted" THEN phase ELSE "other"
    /\ liveStore' = IF phase = "live" THEN Content(strokes) ELSE liveStore
    /\ addCall' = NULL
    /\ UNCHANGED <<isReplaying, recordedData, strokes, currentColor, motion,
                   sinceSample, replayIdx, lastSide, onDeviceMotion,
                   onDeviceOrientation, nListeners, pendingStarts, permissionOverlay, curve, nEvents,
                   replayStore>>

\* Variant of ResetFields: keepRecord keeps the strokes as well.
ResetFieldsKeepStrokes(keepRecord) ==
    /\ isRecording' = FALSE
    /\ isPainting' = FALSE
    /\ strokes' = IF keepRecord THEN strokes ELSE <<>>
    /\ pos' = Zero3
    /\ vel' = Zero3
    /\ acc' = Zero3
    /\ energyAvg' = 0
    /\ recordedData' = IF keepRecord THEN recordedData ELSE <<>>
    /\ UNCHANGED <<currentColor, orientation, stillnessFrames, accLowPass,
                   rotationMag, latestAcc, sinceSample, lastSide, listeners,
                   pendingStarts, permissionOverlay, curve>>

\* Variant of ResetFields: the log is emptied whatever keepRecord is.
ResetFieldsDropLog(keepRecord) ==
    /\ isRecording' = FALSE
    /\ isPainting' = FALSE
    /\ strokes' = <<>>
    /\ pos' = Zero3
    /\ vel' = Zero3
    /\ acc' = Zero3
    /\ energyAvg' = 0
    /\ recordedData' = <<>>
    /\ UNCHANGED <<currentColor, orientation, stillnessFrames, accLowPass,
                   rotationMag, latestAcc, sinceSample, lastSide, listeners,
                   pendingStarts, permissionOverlay, curve>>

\* resetExperience(keepRecord): the fields it assigns, shared by the reset
\* button and replayExperience
ResetFields(keepRecord) ==
    /\ isRecording' = FALSE
    /\ isPainting' = FALSE
    /\ strokes' = <<>>
    /\ pos' = Zero3
    /\ vel' = Zero3
    /\ acc' = Zero3
    /\ energyAvg' = 0
    /\ recordedData' = IF keepRecord THEN recordedData ELSE <<>>
    /\ UNCHANGED <<currentColor, orientation, stillnessFrames, accLowPass,
                   rotationMag, latestAcc, sinceSample, lastSide, listeners,
                   pendingStarts, permissionOverlay, curve>>

\* Variant of ResetExperience: isReplaying is left as it is.
ResetExperienceKeepReplaying ==
    /\ ResetFields(FALSE)
    /\ isReplaying' = isReplaying
    /\ nEvents' = 0
    /\ addCall' = NULL
    /\ phase' = IF isReplaying \/ phase = "interrupted" THEN "interrupted"
                ELSE "other"
    /\ UNCHANGED <<replayIdx, liveStore, replayStore>>

\* resetBtn click: resetExperience()
ResetExperience ==
    /\ ResetFields(FALSE)
    /\ isReplaying' = FALSE
    /\ nEvents' = 0
    /\ addCall' = NULL
    /\ phase' = IF isReplaying \/ phase = "interrupted" THEN "interrupted"
                ELSE "other"
    /\ UNCHANGED <<replayIdx, liveStore, replayStore>>

ReplayExperience ==
    /\ ResetFields(TRUE)
    /\ isReplaying' = TRUE
    /\ replayIdx' = 0
    /\ nEvents' = 0
    /\ addCall' = NULL
    /\ phase' = IF phase = "stopped" THEN "replay1"
                ELSE IF phase \in {"done1", "done2"} THEN "replay2"
                ELSE "other"
    /\ UNCHANGED <<liveStore, replayStore>>

\* ---------------------------------------------------------- sensor events
\* The rotationRate part of _onDeviceMotion, mag the new rotationMag.
Rotated(st, mag) ==
    [st EXCEPT !.rotationMag = mag,
               !.energyAvg = @ + Quot(8 * (Quot(mag, 60) - @), 100)]

\* a closure that stages whatever the event carries, a missing sample too
OnDeviceMotionClears(st, a, rr) ==
    IF ~isRecording THEN st
    ELSE IF rr # NULL
         THEN Rotated([st EXCEPT !.latestAcc = a], Length(rr))
         ELSE [st EXCEPT !.latestAcc = a]

\* One run of the _onDeviceMotion closure on the staged fields st.
OnDeviceMotion(st, a, rr) ==
    IF ~isRecording THEN st
    ELSE IF rr # NULL
         THEN Rotated([st EXCEPT !.latestAcc = IF a # NULL THEN a ELSE @], Length(rr))
         ELSE [st EXCEPT !.latestAcc = IF a # NULL THEN a ELSE @]

\* n attached closures run one after the other on the same event.
RECURSIVE Dispatch(_, _, _, _)
Dispatch(n, st, a, rr) ==
    IF n = 0 THEN st ELSE Dispatch(n - 1, OnDeviceMotion(st, a, rr), a, rr)

\* The fields the handlers of one event left.
Staged(st) ==
    /\ latestAcc' = st.latestAcc
    /\ rotationMag' = st.rotationMag
    /\ energyAvg' = st.energyAvg

\* Variant of DeviceMotion: the handler also moves the position.
DeviceMotionMoves(a, rr) ==
    /\ rr # NULL => nEvents < MaxEvents
    /\ Staged(Dispatch(Cardinality(motionListeners),
                       [latestAcc |-> latestAcc, rotationMag |-> rotationMag,
                        energyAvg |-> energyAvg], a, rr))
    /\ nEvents' = IF isRecording /\ motionListeners # {} /\ rr # NULL
                  THEN nEvents + 1 ELSE nEvents
    /\ addCall' = NULL
    /\ pos' = IF isRecording /\ motionListeners # {} /\ rr # NULL
              THEN VAdd(pos, rr) ELSE pos
    /\ UNCHANGED <<flags, recordedData, strokes, currentColor, vel, acc,
                   orientation, stillnessFrames, accLowPass, sinceSample, replayIdx,
                   lastSide, listeners, pendingStarts, permissionOverlay, curve, observer>>

\* a devicemotion event delivered to every attached handler
DeviceMotion(a, rr) ==
    /\ rr # NULL => nEvents < MaxEvents
    /\ Staged(Dispatch(Cardinality(motionListeners),
                       [latestAcc |-> latestAcc, rotationMag |-> rotationMag,
                        energyAvg |-> energyAvg], a, rr))
    /\ nEvents' = IF isRecording /\ motionListeners # {} /\ rr # NULL
                  THEN nEvents + 1 ELSE nEvents
    /\ addCall' = NULL
    /\ UNCHANGED <<flags, recordedData, strokes, currentColor, pos, vel, acc,
                   orientation, stillnessFrames, accLowPass, sinceSample, replayIdx,
                   lastSide, listeners, pendingStarts, permissionOverlay, curve, observer>>

\* The _onDeviceOrientation closure.
OnDeviceOrientation(q, e) ==
    IF e # NULL THEN SetFromEuler(e[2], e[1], -e[3]) ELSE q

\* a deviceorientation event delivered to every attached handler
DeviceOrientation(e) ==
    /\ orientation' = IF orientationListeners # {}
                      THEN OnDeviceOrientation(orientation, e)
                      ELSE orientation
    /\ addCall' = NULL
    /\ UNCHANGED <<flags, recordedData, strokes, currentColor, pos, vel, acc,
                   energyAvg, stillnessFrames, accLowPass, rotationMag, latestAcc,
                   sinceSample, replayIdx, lastSide, listeners, pendingStarts, permissionOverlay, curve,
                   nEvents, observer>>

\* ----------------------------------------------------------- physics tick
\* The steps of updatePhysics work on m: the fields acc, accLowPass, vel,
\* pos, stillnessFrames, latestAcc and the local worldAcc.

\* acc += accAlpha * (rawAcc * scale - acc), per component
FilterAcc(a, rawAcc) ==
    <<a[1] + Quot(12 * (rawAcc[1] * 25 - a[1]), 100),
      a[2] + Quot(12 * (rawAcc[2] * 25 - a[2]), 100),
      a[3] + Quot(12 * (rawAcc[3] * 25 - a[3]), 100)>>

\* the branch with a staged sample, lowPass the adapted bias estimate
ConditionFresh(m, lowPass) ==
    [m EXCEPT !.accLowPass = lowPass,
              !.acc = FilterAcc(@, VSub(m.latestAcc, lowPass)),
              !.latestAcc = NULL]

\* bias removal and low-pass filter, or decay when no sample is staged
Condition(m, logged) ==
    IF m.latestAcc # NULL
    THEN ConditionFresh(m, Lerp(m.accLowPass, m.latestAcc,
                                IF logged < 100 THEN 50 ELSE 5))
    ELSE [m EXCEPT !.acc = MultiplyScalar(@, 50)]

\* Variant of Stationary: the hard clamp waits for a third still tick.
StationaryLate(m, still) ==
    [m EXCEPT !.worldAcc = Zero3,
              !.stillnessFrames = still,
              !.vel = IF still > 2 THEN Zero3 ELSE @,
              !.acc = IF still > 2 THEN Zero3 ELSE @]

\* the isStationary branch, still the incremented stillnessFrames
Stationary(m, still) ==
    [m EXCEPT !.worldAcc = Zero3,
              !.stillnessFrames = still,
              !.vel = IF still > 1 THEN Zero3 ELSE @,
              !.acc = IF still > 1 THEN Zero3 ELSE @]

\* zero-velocity update and deadzone, w the world acceleration
ZeroVelocity(m, w, accLen) ==
    IF accLen < Deadzone /\ rotationMag < 20
    THEN Stationary(m, IF m.stillnessFrames < MaxStill
                       THEN m.stillnessFrames + 1 ELSE m.stillnessFrames)
    ELSE [m EXCEPT !.stillnessFrames = 0,
                   !.worldAcc = MultiplyScalar(Normalize(w),
                                               accLen - Mul(Deadzone, 80))]

Deadzoned(m, w) == ZeroVelocity(m, w, Length(w))

\* velocity integration, damping and snap to zero
Velocity(m, dt) ==
    [m EXCEPT !.vel = MultiplyScalar(VAdd(@, MultiplyScalar(m.worldAcc, dt * 5)), 92)]

Snapped(m) == [m EXCEPT !.vel = IF Length(@) < 20 THEN Zero3 ELSE @]

\* position integration
Moved(m, dt) == [m EXCEPT !.pos = VAdd(@, MultiplyScalar(m.vel, dt * 12))]

\* updatePhysics down to the position update
Integrate(m, dt) == Moved(Snapped(Velocity(Deadzoned(m, ApplyQuaternion(m.acc, orientation)), dt)), dt)

\* The stroke store and _lastSide as an addPoint call left them, and the
\* record of that call (store and _lastSide before it).
Stored(added, before, p, e) ==
    /\ strokes' = added.strokes
    /\ lastSide' = added.lastSide
    /\ addCall' = [store |-> before, lastSide |-> lastSide, p |-> p, e |-> e,
                   outcome |-> added.outcome]

\* Variant of Recorded: the log entry holds the position before the tick.
RecordedStalePos(m, dt) ==
    /\ accLowPass' = m.accLowPass
    /\ acc' = m.acc
    /\ stillnessFrames' = m.stillnessFrames
    /\ vel' = m.vel
    /\ pos' = m.pos
    /\ latestAcc' = m.latestAcc
    /\ recordedData' = IF isRecording
                       THEN Append(recordedData,
                                   [p |-> pos, energy |-> energyAvg,
                                    isPainting |-> isPainting,
                                    color |-> currentColor, dt |-> dt])
                       ELSE recordedData
    /\ IF isPainting /\ Length(m.vel) > 10
       THEN Stored(AddPoint(strokes, lastSide, isRecording, isReplaying, currentColor,
                            m.pos, Clamp(energyAvg, 0, 100)),
                   strokes, m.pos, Clamp(energyAvg, 0, 100))
       ELSE /\ addCall' = NULL
            /\ UNCHANGED <<strokes, lastSide>>

\* updatePhysics from the log entry on, m the integrated state
Recorded(m, dt) ==
    /\ accLowPass' = m.accLowPass
    /\ acc' = m.acc
    /\ stillnessFrames' = m.stillnessFrames
    /\ vel' = m.vel
    /\ pos' = m.pos
    /\ latestAcc' = m.latestAcc
    /\ recordedData' = IF isRecording
                       THEN Append(recordedData,
                                   [p |-> m.pos, energy |-> energyAvg,
                                    isPainting |-> isPainting,
                                    color |-> currentColor, dt |-> dt])
                       ELSE recordedData
    /\ IF isPainting /\ Length(m.vel) > 10
       THEN Stored(AddPoint(strokes, lastSide, isRecording, isReplaying, currentColor,
                            m.pos, Clamp(energyAvg, 0, 100)),
                   strokes, m.pos, Clamp(energyAvg, 0, 100))
       ELSE /\ addCall' = NULL
            /\ UNCHANGED <<strokes, lastSide>>

\* updatePhysics(dt), dt in milliseconds
UpdatePhysics(dt) ==
    Recorded(Integrate(Condition([acc |-> acc, accLowPass |-> accLowPass, vel |-> vel,
                                  pos |-> pos, stillnessFrames |-> stillnessFrames,
                                  latestAcc |-> latestAcc, worldAcc |-> Zero3],
                                 Len(recordedData)), dt), dt)

\* ------------------------------------------------------- animation frame
\* a recording branch without the sample-period test: every frame ticks
FrameRecordingUngated(d) ==
    /\ isRecording
    /\ Len(recordedData) < MaxLog
    /\ UpdatePhysics(sinceSample + d)
    /\ sinceSample' = 0
    /\ UNCHANGED <<flags, currentColor, orientation, energyAvg, rotationMag,
                   replayIdx, listeners, pendingStarts, permissionOverlay, curve, nEvents,
                   observer>>

\* animate(), recording branch: the elapsed-time gate and the physics tick
FrameRecording(d) ==
    /\ isRecording
    /\ IF (sinceSample + d) * SAMPLE_RATE >= 1000
       THEN /\ Len(recordedData) < MaxLog
            /\ UpdatePhysics(sinceSample + d)
            /\ sinceSample' = 0
       ELSE /\ sinceSample' = sinceSample + d
            /\ addCall' = NULL
            /\ UNCHANGED <<accLowPass, acc, stillnessFrames, vel, pos,
                           recordedData, strokes, lastSide, latestAcc>>
    /\ UNCHANGED <<flags, currentColor, orientation, energyAvg, rotationMag,
                   replayIdx, listeners, pendingStarts, permissionOverlay, curve, nEvents, observer>>

\* Variant of ReplayEntry: the index skips an entry.
ReplayEntrySkip(data, store) ==
    /\ isPainting' = data.isPainting
    /\ currentColor' = data.color
    /\ pos' = data.p
    /\ energyAvg' = data.energy
    /\ IF data.isPainting
       THEN Stored(AddPoint(store, lastSide, isRecording, isReplaying, data.color,
                            data.p, data.energy),
                   store, data.p, data.energy)
       ELSE /\ strokes' = store
            /\ lastSide' = lastSide
            /\ addCall' = NULL
    /\ Len(strokes') <= MaxStrokes
    /\ replayIdx' = replayIdx + 2
    /\ UNCHANGED <<isReplaying, observer>>

\* Variant of ReplayEntry: the point is added whatever the entry's flag.
ReplayEntryPaintsAll(data, store) ==
    /\ isPainting' = data.isPainting
    /\ currentColor' = data.color
    /\ pos' = data.p
    /\ energyAvg' = data.energy
    /\ Stored(AddPoint(store, lastSide, isRecording, isReplaying, data.color,
                       data.p, data.energy),
              store, data.p, data.energy)
    /\ Len(strokes') <= MaxStrokes
    /\ replayIdx' = replayIdx + 1
    /\ UNCHANGED <<isReplaying, observer>>

\* the replay branch for one entry, store the strokes after the
\* painting/colour switch
ReplayEntry(data, store) ==
    /\ isPainting' = data.isPainting
    /\ currentColor' = data.color
    /\ pos' = data.p
    /\ energyAvg' = data.energy
    /\ IF data.isPainting
       THEN Stored(AddPoint(store, lastSide, isRecording, isReplaying, data.color,
                            data.p, data.energy),
                   store, data.p, data.energy)
       ELSE /\ strokes' = store
            /\ lastSide' = lastSide
            /\ addCall' = NULL
    /\ Len(strokes') <= MaxStrokes
    /\ replayIdx' = replayIdx + 1
    /\ UNCHANGED <<isReplaying, observer>>

\* animate(), replay branch: one log entry, or completion when exhausted
FrameReplaying ==
    /\ ~isRecording
    /\ isReplaying
    /\ IF replayIdx # -1 /\ replayIdx < Len(recordedData)
       THEN ReplayEntry(recordedData[replayIdx + 1],
                        IF /\ \/ recordedData[replayIdx + 1].isPainting # isPainting
                              \/ recordedData[replayIdx + 1].color # currentColor
                           /\ recordedData[replayIdx + 1].isPainting
                        THEN CreateNewStroke(strokes, isRecording, isReplaying,
                                             recordedData[replayIdx + 1].color)
                        ELSE strokes)
       ELSE /\ isReplaying' = FALSE
            /\ phase' = IF phase = "replay1" THEN "done1"
                        ELSE IF phase = "replay2" THEN "done2" ELSE phase
            /\ replayStore' = IF phase = "replay1" THEN Content(strokes) ELSE replayStore
            /\ addCall' = NULL
            /\ UNCHANGED <<isPainting, currentColor, pos, energyAvg, strokes,
                           lastSide, replayIdx, liveStore>>
    /\ UNCHANGED <<isRecording, recordedData, vel, acc, orientation, stillnessFrames,
                   accLowPass, rotationMag, latestAcc, sinceSample, listeners,
                   pendingStarts, permissionOverlay, curve, nEvents>>

\* animate(), neither recording nor replaying: only rendering
FrameIdle ==
    /\ ~isRecording
    /\ ~isReplaying
    /\ addCall' = NULL
    /\ UNCHANGED <<flags, recordedData, strokes, currentColor, motion, sinceSample,
                   replayIdx, lastSide, listeners, pendingStarts, permissionOverlay, curve, nEvents, observer>>

Frame(D) == (\E d \in D : FrameRecording(d)) \/ FrameReplaying \/ FrameIdle

\* One recording session and its replays, the controls used as the page
\* offers them: paint, colour and stop while recording; replay and reset
\* once a session was started and nothing is running.  The page is
\* started once, the device reports accelerations only, and frames are a
\* full sample period apart.
Next ==
    \/ isRecording /\ PaintClick
    \/ \E c \in Colors : isRecording /\ ColorInput(c)
    \/ StartClick(1)
    \/ StartDenied
    \/ StartGranted
    \/ isRecording /\ StopExperience
    \/ ~isRecording /\ ~isReplaying /\ nListeners > 0 /\ ResetExperience
    \/ ~isRecording /\ ~isReplaying /\ nListeners > 0 /\ ReplayExperience
    \/ \E a \in AccInputs \ {NULL} : DeviceMotion(a, NULL)
    \/ Frame({20})

Spec == Init /\ [][Next]_vars

\* requestAnimationFrame keeps calling animate: weak fairness of the replay
\* frame, its enabling condition (replaying and not recording) written out.
SpecLive ==
    Spec /\ ([]<>(~isReplaying \/ isRecording) \/ []<><<FrameReplaying>>_vars)

\* Any interleaving of control calls, sensor events and frames, with
\* startExperience called up to MaxStarts times; the device reports
\* rotation rates and orientations.
NextControl ==
    \/ StartClick(MaxStarts)
    \/ StartDenied
    \/ StartGranted
    \/ StopExperience
    \/ ResetExperience
    \/ ReplayExperience
    \/ \E rr \in RotInputs : DeviceMotion(NULL, rr)
    \/ \E e \in OrientInputs : DeviceOrientation(e)
    \/ Frame(FrameMs)

SpecControl == Init /\ [][NextControl]_vars

\* Up to MaxStarts sessions one after the other, the device reporting
\* accelerations; a frame comes every sample period.
NextSessions ==
    \/ StartClick(MaxStarts)
    \/ StartDenied
    \/ StartGranted
    \/ isRecording /\ StopExperience
    \/ \E a \in AccInputs \ {NULL} : DeviceMotion(a, NULL)
    \/ \E d \in FrameMs : FrameRecording(d)
    \/ FrameIdle

SpecSessions == Init /\ [][NextSessions]_vars

\* Steps between consecutive points of a path: one unit along an axis.
Steps == {<<100, 0, 0>>, <<-100, 0, 0>>, <<0, 100, 0>>, <<0, -100, 0>>,
          <<0, 0, 100>>, <<0, 0, -100>>}

\* The k-th point of the path that starts at the origin and takes steps d.
RECURSIVE PathPoint(_, _)
PathPoint(d, k) == IF k = 1 THEN Zero3 ELSE VAdd(PathPoint(d, k - 1), d[k - 1])

\* The log of a session that painted along the path, with energy 0.5.
PathLog(d) ==
    [k \in 1..(Len(d) + 1) |->
        [p |-> PathPoint(d, k), energy |-> 50, isPainting |-> TRUE,
         color |-> "#00ffff", dt |-> 20]]

PathLogs == {PathLog(d) : d \in [1..(MaxPath - 1) -> Steps]}

\* A stopped session whose log holds one of the paths.
InitRibbon ==
    /\ isRecording = FALSE
    /\ isPainting = FALSE
    /\ isReplaying = FALSE
    /\ recordedData \in PathLogs
    /\ strokes = <<>>
    /\ currentColor = "#00ffff"
    /\ pos = Zero3
    /\ vel = Zero3
    /\ acc = Zero3
    /\ orientation = Identity3
    /\ energyAvg = 0
    /\ stillnessFrames = 0
    /\ accLowPass = Zero3
    /\ rotationMag = 0
    /\ latestAcc = NULL
    /\ sinceSample = 0
    /\ replayIdx = -1
    /\ lastSide = NULL
    /\ onDeviceMotion = 1
    /\ onDeviceOrientation = 1
    /\ motionListeners = {}
    /\ orientationListeners = {}
    /\ nListeners = 1
    /\ pendingStarts = 0
    /\ permissionOverlay = FALSE
    /\ points = <<>>
    /\ energies = <<>>
    /\ lastDecimated = FALSE
    /\ nEvents = 0
    /\ addCall = NULL
    /\ phase = "stopped"
    /\ liveStore = NULL
    /\ replayStore = NULL

\* The ribbon builder applied to the paths: the log is replayed, each
\* frame adding a point to the stroke and rebuilding its meshes.
NextRibbon ==
    \/ ~isReplaying /\ ReplayExperience
    \/ FrameReplaying
    \/ FrameIdle

SpecRibbon == InitRibbon /\ [][NextRibbon]_vars

\* One recording session of a device that turns while it accelerates
\* gently or firmly; a frame comes every sample period.
NextPhysics ==
    \/ StartClick(1)
    \/ StartDenied
    \/ StartGranted
    \/ \E a \in GentleAccInputs \cup {NULL}, rr \in RotInputs : DeviceMotion(a, rr)
    \/ \E e \in OrientInputs : DeviceOrientation(e)
    \/ FrameRecording(20)

SpecPhysics == Init /\ [][NextPhysics]_vars

\* One start and any use of the controls, the paint and colour widgets
\* once recording is off, no sensor events; a frame comes a sample period
\* after the last one, or after the tab spent LongGap milliseconds in the
\* background.
NextTiming ==
    \/ ~isRecording /\ PaintClick
    \/ \E c \in Colors : ~isRecording /\ ColorInput(c)
    \/ StartClick(1)
    \/ StartDenied
    \/ StartGranted
    \/ StopExperience
    \/ ResetExperience
    \/ ReplayExperience
    \/ Frame({20, LongGap})

SpecTiming == Init /\ [][NextTiming]_vars

\* Arbitrary inputs: the control calls in any order and at any time, paint
\* and colour events at any time, acceleration events and animation frames,
\* in a program started once with a session log of at most MaxAnyLog entries.
NextAny ==
    \/ PaintClick
    \/ \E c \in Colors : ColorInput(c)
    \/ StartClick(1)
    \/ StartDenied
    \/ StartGranted
    \/ StopExperience
    \/ ResetExperience
    \/ ReplayExperience
    \/ \E a \in AccInputs \ {NULL} : DeviceMotion(a, NULL)
    \/ Len(recordedData) < MaxAnyLog /\ FrameRecording(20)
    \/ FrameReplaying
    \/ FrameIdle

SpecAny == Init /\ [][NextAny]_vars

\* ------------------------------------------ single-curve class (first)
\* Positions and energies offered to the single-curve addPoint.
CurvePoints == {<<0, 0, 0>>, <<100, 0, 0>>, <<200, 0, 0>>, <<300, 0, 0>>}
CurveEnergies == {0, 50, 100}

\* The decimation loop from index i on (1-based; i += 2).
RECURSIVE Decimate(_, _)
Decimate(s, i) ==
    IF i > Len(s) THEN <<>> ELSE <<s[i]>> \o Decimate(s, i + 2)

\* Variant of Decimated: the loop starts at the second element.
DecimatedOdd(s) == Decimate(s, 2)

\* newPoints / newEnergies of an over-long array
Decimated(s) == Decimate(s, 1)

\* The array after the push and the length test.
Ceiled(s) == IF Len(s) > MAX_POINTS THEN Decimated(s) ELSE s

\* addPoint(p, e) of the single-curve class
AddPointCurve(p, e) ==
    /\ points' = Ceiled(Append(points, p))
    /\ energies' = Ceiled(Append(energies, e))
    /\ lastDecimated' = (Len(points) + 1 > MAX_POINTS)
    /\ UNCHANGED multiStroke

\* resetData / resetExperience of the single-curve class, on its arrays
ResetCurve ==
    /\ points' = <<>>
    /\ energies' = <<>>
    /\ lastDecimated' = FALSE
    /\ UNCHANGED multiStroke

NextCurve ==
    \/ \E p \in CurvePoints, e \in CurveEnergies : AddPointCurve(p, e)
    \/ ResetCurve

SpecCurve == Init /\ [][NextCurve]_vars

\* ================================================================ claims

\* C1: once a recorded session has been replayed to exhaustion, the stroke
\* store equals the one the live session had at stopExperience (stroke
\* count, and per stroke colour, points and energies).
ReplayReproducesLive == phase = "done1" => Content(strokes) = liveStore

\* C2: a second replay of the same log, run to exhaustion with no paint or
\* colour event in between, ends with the stroke store the first replay
\* ended with.
ReplayTwiceIdentical == phase = "done2" => Content(strokes) = replayStore

ReplayTwiceWitness ==
    /\ phase = "done2"
    /\ Len(recordedData) >= 2
    /\ Len(strokes) >= 2
    /\ \E i \in 1..Len(strokes) : Len(strokes[i].points) >= 2

\* The log is n1 entries painting with colour A, then n2 entries not
\* painting, then n3 entries painting with colour B.
ScenarioShape(log, n1, n2, n3, A, B) ==
    /\ Len(log) = n1 + n2 + n3
    /\ \A k \in 1..n1 : log[k].isPainting /\ log[k].color = A
    /\ \A k \in (n1 + 1)..(n1 + n2) : ~log[k].isPainting
    /\ \A k \in (n1 + n2 + 1)..Len(log) : log[k].isPainting /\ log[k].color = B

ScenarioLog ==
    \E n1, n2, n3 \in 1..Len(recordedData) : \E A, B \in Colors :
        ScenarioShape(recordedData, n1, n2, n3, A, B)

StrokeCountLive ==
    [][isRecording' =>
          /\ Len(strokes') # Len(strokes) =>
                \/ StartGranted
                \/ PaintClick /\ isPainting'
                \/ \E c \in Colors : ColorInput(c) /\ isPainting
          /\ (\E d \in FrameMs : FrameRecording(d)) => Len(strokes') = Len(strokes)
          /\ ((PaintClick \/ \E c \in Colors : ColorInput(c)) /\ ~isPainting')
                => Len(strokes') = Len(strokes)]_vars

StrokeCountWitness ==
    /\ isRecording
    /\ ~isPainting
    /\ Len(strokes) >= 2
    /\ Len(recordedData) >= 2
    /\ \E i \in 1..Len(strokes) : Len(strokes[i].points) >= 1

\* C5: every energy stored in a stroke lies in [0, 1].
EnergyInUnitRange ==
    \A i \in 1..Len(strokes) : \A j \in 1..Len(strokes[i].energies) :
        strokes[i].energies[j] >= 0 /\ strokes[i].energies[j] <= 100

\* The addPoint call of the last step was made with a point closer than the
\* minimum spacing to the last point of the then current stroke.
CalledTooClose ==
    /\ addCall # NULL
    /\ addCall.store # <<>>
    /\ LET cur == addCall.store[Len(addCall.store)]
       IN  /\ cur.points # <<>>
           /\ DistanceTo(addCall.p, cur.points[Len(cur.points)]) < MinSpacing

\* C6: an addPoint call with a point closer than 0.3 to the current stroke's
\* last point leaves the stroke store as it was (points, energies, meshes)
\* and runs no geometry build.
SpacingRejects ==
    CalledTooClose => strokes = addCall.store /\ lastSide = addCall.lastSide

SpacingWitness == CalledTooClose /\ isReplaying /\ replayIdx >= 2

\* The index buffer of geo is that of a ribbon over n points.
RibbonOver(geo, n) ==
    /\ Len(geo.position) = 3 * (2 * n)
    /\ Len(geo.index) = 6 * (n - 1)
    /\ \A k \in 1..Len(geo.index) : geo.index[k] \in 0..(2 * n - 1)
    /\ \A i \in 0..(n - 2) : \A k \in 1..6 :
          geo.index[6 * i + k] \in {2 * i, 2 * i + 1, 2 * i + 2, 2 * i + 3}

\* C7: a stroke with fewer than 2 points has no mesh; a stroke with n >= 2
\* points has a ribbon of 2n vertices and 2(n-1) triangles whose indices lie
\* in [0, 2n-1], segment i using only vertices 2i..2i+3.
RibbonTopology ==
    \A i \in 1..Len(strokes) :
        LET s == strokes[i]
            n == Len(s.points)
        IN  /\ n < 2 => s.ribbonMesh = NULL /\ s.coreMesh = NULL
            /\ n >= 2 => /\ s.ribbonMesh # NULL
                         /\ s.coreMesh # NULL
                         /\ RibbonOver(s.ribbonMesh, n)
                         /\ RibbonOver(s.coreMesh, n)

RibbonWitness ==
    /\ \E i \in 1..Len(strokes) : Len(strokes[i].points) = 2
    /\ \E i \in 1..Len(strokes) : Len(strokes[i].points) = 1

\* C8: isRecording and isReplaying are never both true.
OneSessionState == ~(isRecording /\ isReplaying)

\* C9: stopExperience leaves no devicemotion or deviceorientation handler
\* attached, and no physics tick runs while the session is stopped.
StopDetachesAll ==
    /\ [][StopExperience =>
             motionListeners' = {} /\ orientationListeners' = {}]_vars
    /\ [][~isRecording => ~(\E d \in FrameMs : FrameRecording(d))]_vars

\* C10: a sensor event handled while isRecording is false changes none of
\* latestAcc, rotationMag, energyAvg and orientation.
InactiveHandlersInert ==
    [][(/\ ~isRecording
        /\ \/ \E rr \in RotInputs : DeviceMotion(NULL, rr)
           \/ \E e \in OrientInputs : DeviceOrientation(e))
       => UNCHANGED <<latestAcc, rotationMag, energyAvg, orientation>>]_vars

\* C11: the step that completes startExperience with permission granted,
\* and every resetExperience step, leaves position, velocity, filtered
\* acceleration, the bias estimate accLowPass and the energy zero and the
\* orientation the identity rotation.
StartResetZero ==
    [][(StartGranted \/ ResetExperience) =>
          /\ pos' = Zero3
          /\ vel' = Zero3
          /\ acc' = Zero3
          /\ accLowPass' = Zero3
          /\ energyAvg' = 0
          /\ orientation' = Identity3]_vars

\* C12: the dt an accepted physics tick integrates with (the dt it logs)
\* stays under a fixed bound, below the gap a backgrounded tab leaves
\* between two frames.
TickDtBounded ==
    \A k \in 1..Len(recordedData) : recordedData[k].dt < LongGap

\* The step is an accepted physics tick: a recording frame that passed the
\* sample-period gate.
AcceptedTick ==
    \E d \in FrameMs :
        (sinceSample + d) * SAMPLE_RATE >= 1000 /\ FrameRecording(d)

\* C13: while recording, an accepted physics tick appends exactly one entry
\* to recordedData, holding the position after the tick's integration (the
\* one offered to the stroke store in that tick), the energy, isPainting and
\* currentColor in force and the tick's dt; no other step appends to the
\* log, so its length is the number of accepted ticks since the start.
LogPerTick ==
    /\ [][(isRecording /\ AcceptedTick) =>
            /\ \E d \in FrameMs :
                  recordedData' = Append(recordedData,
                                         [p |-> pos', energy |-> energyAvg,
                                          isPainting |-> isPainting,
                                          color |-> currentColor,
                                          dt |-> sinceSample + d])
            /\ addCall' # NULL => addCall'.p = pos']_vars
    /\ [][~AcceptedTick =>
            recordedData' = recordedData \/ recordedData' = <<>>]_vars
    /\ [][StartGranted => recordedData' = <<>>]_vars

LogPerTickWitness ==
    /\ isRecording
    /\ Len(recordedData) >= 2
    /\ addCall # NULL
    /\ addCall.p = recordedData[Len(recordedData)].p
    /\ recordedData[Len(recordedData)].p # recordedData[Len(recordedData) - 1].p
    /\ \E k \in 1..Len(recordedData) : recordedData[k].color # recordedData[1].color

\* C14: while recording is off, recordedData is left as it is by animation
\* frames, replays, resetExperience(true) and paint and colour events; it
\* is emptied only by resetExperience(false) or the next granted start.
\* resetExperience(true) clears the stroke store and keeps the log,
\* resetExperience(false) clears both.
LogFrozen ==
    /\ [][~isRecording =>
            \/ recordedData' = recordedData
            \/ (ResetExperience \/ StartGranted) /\ recordedData' = <<>>]_vars
    /\ [][ReplayExperience => strokes' = <<>> /\ recordedData' = recordedData]_vars
    /\ [][ResetExperience => strokes' = <<>> /\ recordedData' = <<>>]_vars

\* A replay of a log of two entries or more has finished, with a colour
\* event during or after it.
LogFrozenWitness ==
    /\ ~isRecording
    /\ ~isReplaying
    /\ replayIdx = Len(recordedData)
    /\ Len(recordedData) >= 2
    /\ currentColor # recordedData[Len(recordedData)].color
    /\ phase = "other"

\* C15: after replayExperience, with frames firing and no reset, every
\* replay frame consumes the entry at replayIdx and moves the index by one,
\* so entries are consumed in index order, each once; the frame after the
\* last entry ends the replay (isReplaying false), and the replay does end.
\* With an empty log the first frame ends the replay, creating no stroke,
\* adding no point and raising no error.
ReplayInOrder ==
    /\ [][isReplaying =>
            /\ replayIdx' \in {replayIdx, replayIdx + 1}
            /\ (FrameReplaying /\ replayIdx < Len(recordedData)) =>
                  /\ replayIdx' = replayIdx + 1
                  /\ pos' = recordedData[replayIdx + 1].p
                  /\ energyAvg' = recordedData[replayIdx + 1].energy
                  /\ isPainting' = recordedData[replayIdx + 1].isPainting
                  /\ isReplaying'
            /\ (FrameReplaying /\ replayIdx = Len(recordedData)) =>
                  /\ ~isReplaying'
                  /\ strokes' = strokes
                  /\ addCall' = NULL
            /\ ~isReplaying' => replayIdx = Len(recordedData)
            /\ addCall' # NULL => addCall'.outcome # "throw"]_vars
    /\ (isReplaying ~> (~isReplaying /\ replayIdx = Len(recordedData)))

ReplayInOrderWitness ==
    /\ phase = "done1"
    /\ replayIdx = Len(recordedData)
    /\ Len(recordedData) >= 3
    /\ Len(strokes) >= 1

\* The replay of an empty log has ended.
ReplayEmptyLog ==
    phase = "done1" /\ recordedData = <<>> /\ strokes = <<>>

\* C16: after a resetExperience issued while replaying, and until the next
\* startExperience or replayExperience, the replay is off, the stroke
\* store stays empty, and no step (no frame in particular) advances
\* replayIdx or moves the position to a log entry.
ResetInterruptsReplay ==
    /\ [](phase = "interrupted" => ~isReplaying /\ strokes = <<>>)
    /\ [][(isReplaying /\ ResetExperience) => phase' = "interrupted"]_vars
    /\ [][(phase = "interrupted" /\ ~StartGranted /\ ~ReplayExperience) =>
            /\ phase' = "interrupted"
            /\ replayIdx' = replayIdx
            /\ pos' = pos
            /\ recordedData' = <<>>]_vars

\* The replay was interrupted after its first entry, and the paint button
\* was clicked afterwards.
ResetInterruptsWitness ==
    /\ phase = "interrupted"
    /\ replayIdx = 1
    /\ isPainting
    /\ currentColor # "#00ffff"

\* The step is a devicemotion or deviceorientation event.
SensorEvent ==
    \/ \E a \in AccInputs, rr \in RotInputs : DeviceMotion(a, rr)
    \/ \E e \in OrientInputs : DeviceOrientation(e)

\* Some stroke holding points is new or differs from what it was: a point
\* was appended or a mesh rebuilt.
StoreTouched ==
    \E i \in 1..Len(strokes') :
        /\ strokes'[i].points # <<>>
        /\ i > Len(strokes) \/ strokes'[i] # strokes[i]

\* C17: a devicemotion or deviceorientation handler leaves the stroke
\* store (strokes, points, meshes), the position and the velocity as they
\* are; points are appended and meshes rebuilt only by animation frames.
SensorsOnlyStage ==
    /\ [][SensorEvent => UNCHANGED <<strokes, lastSide, pos, vel, recordedData>>]_vars
    /\ [][StoreTouched => (FrameReplaying \/ \E d \in FrameMs : FrameRecording(d))]_vars

\* Sensor events were handled and the store holds a point.
SensorsOnlyStageWitness ==
    /\ orientation # Identity3
    /\ rotationMag > 0
    /\ energyAvg > 0
    /\ \E i \in 1..Len(strokes) : strokes[i].points # <<>>

\* C18: no stroke, and not the store as a whole, holds more than MAX_POINTS
\* points.
PointCeiling ==
    \A i \in 1..Len(strokes) : Len(strokes[i].points) <= MAX_POINTS

\* Sequence a is a prefix of sequence b.
IsPrefix(a, b) == Len(a) <= Len(b) /\ \A k \in 1..Len(a) : b[k] = a[k]

\* C19: within a session only the last stroke gains points: a step that is
\* neither a reset emptying the store nor a session start leaves every
\* stroke that is not last with the same points, energies and colour, and
\* the last stroke's points and energies only grow at the end.
LastStrokeAppendOnly ==
    [][(strokes' # <<>> /\ ~StartGranted) =>
          /\ Len(strokes') >= Len(strokes)
          /\ \A i \in 1..Len(strokes) :
                /\ strokes'[i].color = strokes[i].color
                /\ IsPrefix(strokes[i].points, strokes'[i].points)
                /\ IsPrefix(strokes[i].energies, strokes'[i].energies)
                /\ (i < Len(strokes) \/ Len(strokes') > Len(strokes))
                      => /\ strokes'[i].points = strokes[i].points
                         /\ strokes'[i].energies = strokes[i].energies]_vars

LastStrokeWitness ==
    /\ Len(strokes) >= 2
    /\ strokes[1].points # <<>>
    /\ Len(strokes[Len(strokes)].points) >= 2

\* The motion fields of the current state after the conditioning step of a
\* tick run now, and the world-space acceleration of that tick.
Conditioned ==
    Condition([acc |-> acc, accLowPass |-> accLowPass, vel |-> vel, pos |-> pos,
               stillnessFrames |-> stillnessFrames, latestAcc |-> latestAcc,
               worldAcc |-> Zero3], Len(recordedData))

TickWorldAcc == ApplyQuaternion(Conditioned.acc, orientation)

\* The acceleration the tick run now integrates into the velocity.
TickIntegratedAcc == Deadzoned(Conditioned, TickWorldAcc).worldAcc

\* C20: in an accepted tick whose world acceleration is shorter than the
\* deadzone (0.9) the acceleration integrated into the velocity is zero,
\* whatever the rotation rate; otherwise it has the direction of the world
\* acceleration and is shorter.
DeadzoneZeroes ==
    [][AcceptedTick =>
          IF Length(TickWorldAcc) < Deadzone
          THEN TickIntegratedAcc = Zero3
          ELSE /\ Length(TickIntegratedAcc) < Length(TickWorldAcc)
               /\ Cross(TickIntegratedAcc, TickWorldAcc) = Zero3
               /\ TickIntegratedAcc[1] * TickWorldAcc[1]
                     + TickIntegratedAcc[2] * TickWorldAcc[2]
                     + TickIntegratedAcc[3] * TickWorldAcc[3] > 0]_vars

\* The motion fields of the current state, as the steps of updatePhysics
\* take them.
MotionFields ==
    [acc |-> acc, accLowPass |-> accLowPass, vel |-> vel, pos |-> pos,
     stillnessFrames |-> stillnessFrames, latestAcc |-> latestAcc,
     worldAcc |-> Zero3]

\* One tick of updatePhysics from the deadzone on, driven by the world
\* acceleration w.
DrivenTick(m, w, dt) == Moved(Snapped(Velocity(Deadzoned(m, w), dt)), dt)

\* n such ticks with the same world acceleration.
RECURSIVE DrivenTicks(_, _, _, _)
DrivenTicks(n, m, w, dt) ==
    IF n = 0 THEN m ELSE DrivenTicks(n - 1, DrivenTick(m, w, dt), w, dt)

\* World-acceleration magnitudes below (0.2, 0.5) and above (1.0) the deadzone.
WeakAcc == {20, 50}
StrongAcc == {100}

\* C21: from rest, with the rotation rate of the current state, the speed
\* after N ticks driven by a constant world acceleration below the
\* deadzone is at most the speed after N ticks driven by one above it, in
\* the same direction and with the same dt.
DeadzoneMonotone ==
    (isRecording /\ vel = Zero3) =>
        \A n \in 1..MaxLog : \A a1 \in WeakAcc : \A a2 \in StrongAcc :
            Length(DrivenTicks(n, MotionFields, <<a1, 0, 0>>, 20).vel)
                <= Length(DrivenTicks(n, MotionFields, <<a2, 0, 0>>, 20).vel)

\* The tick run now is a still one: world acceleration under the deadzone
\* and rotation rate under its threshold (0.2).
StillTick == Length(TickWorldAcc) < Deadzone /\ rotationMag < 20

\* C22: an accepted still tick that follows a still tick of the session
\* (stillnessFrames is at least 1 when it starts) ends with velocity and
\* filtered acceleration zero and the position where the previous tick
\* left it, and appends no point to any stroke.
StillnessClamps ==
    [][(AcceptedTick /\ stillnessFrames >= 1 /\ StillTick) =>
          /\ vel' = Zero3
          /\ acc' = Zero3
          /\ pos' = pos
          /\ addCall' = NULL
          /\ Content(strokes') = Content(strokes)]_vars

\* Two still ticks in a row, the first of which had consumed a sample.
StillnessWitness ==
    /\ isRecording
    /\ stillnessFrames >= 2
    /\ Len(recordedData) >= 2
    /\ accLowPass # Zero3
    /\ acc = Zero3

\* Values this._lastSide may hold when a build starts.
SideSeeds == {NULL, Zero3, <<100, 0, 0>>, <<0, 100, 0>>, <<0, 0, -100>>}

\* C23: the meshes of a stroke are those createRibbonGeometry builds from
\* the stroke's points and energies whatever this._lastSide held when the
\* build started: earlier builds do not influence the vertices.
RibbonIgnoresLastSide ==
    \A i \in 1..Len(strokes) :
        Len(strokes[i].points) >= 2 =>
            \A s \in SideSeeds \cup {lastSide} :
                /\ strokes[i].ribbonMesh
                      = CreateRibbonGeometry(strokes[i].points, strokes[i].energies,
                                             120, 20, s).geo
                /\ strokes[i].coreMesh
                      = CreateRibbonGeometry(strokes[i].points, strokes[i].energies,
                                             40, 10, s).geo

\* A stroke of three points whose path turns was built.
RibbonIgnoresWitness ==
    \E i \in 1..Len(strokes) :
        /\ Len(strokes[i].points) >= 3
        /\ Tangent(strokes[i].points, 1) # Tangent(strokes[i].points, 3)
        /\ strokes[i].ribbonMesh # NULL

\* Vertex v1 (which = 0) or v2 (which = 1) of point k in a position array.
Vertex(position, k, which) ==
    <<position[6 * (k - 1) + 3 * which + 1],
      position[6 * (k - 1) + 3 * which + 2],
      position[6 * (k - 1) + 3 * which + 3]>>

Dot(a, b) == a[1] * b[1] + a[2] * b[2] + a[3] * b[3]

\* The two vertices of every point of the mesh geo of stroke s lie at
\* p + side * w and p - side * w, with side a unit vector orthogonal to
\* the tangent and w = minWidth + energy * widthMult.
VerticesAcross(s, geo, widthMult, minWidth) ==
    \A k \in 1..Len(s.points) :
        /\ VAdd(Vertex(geo.position, k, 0), Vertex(geo.position, k, 1))
              = MultiplyScalar(s.points[k], 200)
        /\ DistanceTo(Vertex(geo.position, k, 0), Vertex(geo.position, k, 1))
              = 2 * (minWidth + Mul(s.energies[k], widthMult))
        /\ Dot(VSub(Vertex(geo.position, k, 0), Vertex(geo.position, k, 1)),
               Tangent(s.points, k)) = 0

\* C24: in every stroke of two points or more (consecutive points are
\* distinct) the two vertices of point i are position_i + side_i * w_i and
\* position_i - side_i * w_i, side_i a unit vector orthogonal to the
\* tangent: they are 2 * w_i apart, on paths with right-angle turns too.
RibbonWidthKept ==
    \A i \in 1..Len(strokes) :
        Len(strokes[i].points) >= 2 =>
            /\ VerticesAcross(strokes[i], strokes[i].ribbonMesh, 120, 20)
            /\ VerticesAcross(strokes[i], strokes[i].coreMesh, 40, 10)

\* v1 - v2 of point k: the side vector of the point times twice its width.
Across(position, k) == VSub(Vertex(position, k, 0), Vertex(position, k, 1))

\* No side vector of the mesh geo points against the one before it.
NoFlip(geo, n) ==
    \A k \in 1..(n - 1) :
        Dot(Across(geo.position, k), Across(geo.position, k + 1)) >= 0

\* C25: for consecutive points i, i+1 of a stroke the dot product of the
\* side vectors is never negative, on paths that turn by right angles,
\* sweep through 180 degrees or reverse as well.
RibbonNeverFlips ==
    \A i \in 1..Len(strokes) :
        Len(strokes[i].points) >= 2 =>
            /\ NoFlip(strokes[i].ribbonMesh, Len(strokes[i].points))
            /\ NoFlip(strokes[i].coreMesh, Len(strokes[i].points))

\* A built path that reverses at its second point and keeps its width
\* there and at the points around it.
RibbonNeverFlipsWitness ==
    \E i \in 1..Len(strokes) :
        /\ Len(strokes[i].points) >= 3
        /\ Tangent(strokes[i].points, 2) = MultiplyScalar(Tangent(strokes[i].points, 1), -100)
        /\ Dot(Across(strokes[i].ribbonMesh.position, 1),
               Across(strokes[i].ribbonMesh.position, 2)) > 0
        /\ Dot(Across(strokes[i].ribbonMesh.position, 2),
               Across(strokes[i].ribbonMesh.position, 3)) > 0

\* C26: a tick filters a raw sample only if a sensor event staged it since
\* the previous tick or the start of the same session, and a tick without
\* one halves the filtered acceleration.  A tick filters exactly when
\* latestAcc is set, so: a session starts with no sample staged; a tick
\* leaves none staged (each is consumed once); only a devicemotion event
\* handled while recording stages one; and a tick that finds none halves acc.
NoStaleSample ==
    /\ [][StartGranted => latestAcc' = NULL]_vars
    /\ [][AcceptedTick => latestAcc' = NULL]_vars
    /\ [][(latestAcc' # NULL /\ latestAcc' # latestAcc) =>
            (isRecording /\ \E a \in AccInputs \ {NULL} : DeviceMotion(a, NULL))]_vars
    /\ [][(AcceptedTick /\ latestAcc = NULL) =>
            Conditioned.acc = MultiplyScalar(acc, 50)]_vars

\* C27: a start whose permission is refused changes neither the flags (so
\* isRecording stays false), nor the listeners, the log, the stroke store or
\* the motion state; a start granted while the refusal is still displayed
\* begins a session as any other: recording, painting, an empty log, one
\* empty stroke, zeroed motion, a fresh sampling clock and its own handlers
\* attached.
DeniedStartInert ==
    /\ [][StartDenied =>
            /\ UNCHANGED <<flags, listeners, recordedData, strokes, motion>>
            /\ (~isRecording => ~isRecording')]_vars
    /\ [][(permissionOverlay /\ StartGranted) =>
            /\ isRecording' /\ isPainting'
            /\ recordedData' = <<>>
            /\ Len(strokes') = 1 /\ strokes'[1].points = <<>>
            /\ pos' = Zero3 /\ vel' = Zero3 /\ acc' = Zero3
            /\ sinceSample' = 0
            /\ onDeviceMotion' \in motionListeners' \ motionListeners
            /\ onDeviceOrientation' \in orientationListeners' \ orientationListeners]_vars

\* a finished session with data, a refused start after it, and a further
\* start awaiting its answer
DeniedStartWitness ==
    /\ permissionOverlay
    /\ ~isRecording
    /\ recordedData # <<>>
    /\ motionListeners = {}
    /\ pendingStarts > 0

\* C28: in a session with its handler attached, a devicemotion event without
\* acceleration keeps latestAcc and takes rotationMag (and, with one handler,
\* the smoothed energy) from its rotation rate; an event without rotation
\* rate keeps rotationMag and energyAvg and stages its acceleration; an
\* event with neither changes no field of the program.
Listening == isRecording /\ motionListeners # {}

NullFieldsSkipped ==
    /\ [][\A rr \in RotInputs \ {NULL} :
            (Listening /\ DeviceMotion(NULL, rr)) =>
                /\ latestAcc' = latestAcc
                /\ rotationMag' = Length(rr)
                /\ (Cardinality(motionListeners) = 1 =>
                        energyAvg' = energyAvg
                            + Quot(8 * (Quot(Length(rr), 60) - energyAvg), 100))]_vars
    /\ [][\A a \in GentleAccInputs :
            (Listening /\ DeviceMotion(a, NULL)) =>
                /\ latestAcc' = a
                /\ rotationMag' = rotationMag
                /\ energyAvg' = energyAvg]_vars
    /\ [][(Listening /\ DeviceMotion(NULL, NULL)) =>
            UNCHANGED <<flags, recordedData, strokes, currentColor, motion,
                        sinceSample, replayIdx, lastSide, listeners>>]_vars

\* before the first tick of the session: a rotation rate was taken although
\* no acceleration is staged
NullAccWitness ==
    /\ Listening
    /\ recordedData = <<>>
    /\ latestAcc = NULL
    /\ rotationMag > 0
    /\ energyAvg > 0

\* C29: every entry of the log was written by a tick that came at least one
\* sample period (1/SAMPLE_RATE s) after the previous tick or the start of
\* the session; a recording frame short of the period runs no tick, it only
\* lets the time since the last sample grow; and no recording frame, ticking
\* or not, fails before it reaches the render call.
TickSpacing ==
    /\ [](\A k \in 1..Len(recordedData) : recordedData[k].dt * SAMPLE_RATE >= 1000)
    /\ [][\A d \in FrameMs :
            (FrameRecording(d) /\ (sinceSample + d) * SAMPLE_RATE < 1000) =>
                /\ UNCHANGED <<recordedData, strokes, lastSide, motion>>
                /\ sinceSample' = sinceSample + d]_vars
    /\ [][(\E d \in FrameMs : FrameRecording(d)) =>
            (addCall' = NULL \/ addCall'.outcome # "throw")]_vars

\* a tick was logged and the frame after it came too early to tick
TickSpacingWitness ==
    /\ isRecording
    /\ recordedData # <<>>
    /\ sinceSample > 0
    /\ sinceSample * SAMPLE_RATE < 1000

\* C30: whatever the order of control calls, paint and colour events, sensor
\* events and frames, no addPoint call takes the path that dereferences a
\* missing stroke; indeed every call finds a stroke in the store, opened
\* before it by the start, a paint or colour event or the replay branch, so
\* the call never depends on createNewStroke. A stroke with fewer than 2
\* points has no ribbon and no core geometry, and a built geometry has two
\* vertices for each of the points (at least 2) the stroke had when it was
\* built.
NeverCrashes ==
    /\ addCall # NULL =>
          (addCall.outcome # "throw" /\ addCall.store # <<>>)
    /\ \A i \in 1..Len(strokes) :
          /\ Len(strokes[i].points) < 2 =>
                (strokes[i].ribbonMesh = NULL /\ strokes[i].coreMesh = NULL)
          /\ strokes[i].ribbonMesh # NULL =>
                Len(strokes[i].ribbonMesh.position) \in
                    {6 * k : k \in 2..Len(strokes[i].points)}

\* the first point of a replay, pushed to the stroke the replay branch had
\* just opened in the cleared store
FirstReplayPointWitness ==
    /\ addCall # NULL
    /\ Len(addCall.store) = 1
    /\ addCall.store[1].points = <<>>
    /\ addCall.outcome = "pushed"
    /\ isReplaying
    /\ ~isRecording

\* The point sequences of the strokes of a store, in order.
PointsOf(store) == [i \in 1..Len(store) |-> store[i].points]

\* C31: a live physics tick taken while isPainting is off, and a replay
\* frame that consumes a log entry whose isPainting is off, leave the point
\* sequence of every stroke (and the number of strokes) as it was and make no
\* addPoint call, while the log of the live tick and the index of the replay
\* still advance.
PaintOffAddsNothing ==
    /\ [][(AcceptedTick /\ ~isPainting) =>
            /\ PointsOf(strokes') = PointsOf(strokes)
            /\ addCall' = NULL
            /\ Len(recordedData') = Len(recordedData) + 1]_vars
    /\ [][(/\ FrameReplaying
           /\ replayIdx # -1 /\ replayIdx < Len(recordedData)
           /\ ~recordedData[replayIdx + 1].isPainting) =>
            /\ PointsOf(strokes') = PointsOf(strokes)
            /\ addCall' = NULL
            /\ replayIdx' = replayIdx + 1]_vars

\* a replay has just consumed an entry logged with painting off, away from
\* the origin, while the store holds a painted point
PaintOffWitness ==
    /\ isReplaying
    /\ ~isRecording
    /\ replayIdx >= 1
    /\ replayIdx <= Len(recordedData)
    /\ ~recordedData[replayIdx].isPainting
    /\ pos = recordedData[replayIdx].p
    /\ pos # Zero3
    /\ \E i \in 1..Len(strokes) : strokes[i].points # <<>>

\* C32: in every state the meshes of each stroke are the ones a build from
\* the stroke's whole present point and energy sequences gives: a stroke of
\* n >= 2 points has a ribbon (width factor 1.2, minimum 0.2) and a core
\* (0.4, 0.1), each with 2n vertices, equal to a fresh build; a stroke of
\* fewer than 2 points has neither.
MeshesCurrent ==
    \A i \in 1..Len(strokes) :
        IF Len(strokes[i].points) < 2
        THEN strokes[i].ribbonMesh = NULL /\ strokes[i].coreMesh = NULL
        ELSE /\ strokes[i].ribbonMesh =
                    CreateRibbonGeometry(strokes[i].points, strokes[i].energies,
                                         120, 20, NULL).geo
             /\ strokes[i].coreMesh =
                    CreateRibbonGeometry(strokes[i].points, strokes[i].energies,
                                         40, 10, NULL).geo
             /\ Len(strokes[i].ribbonMesh.position) = 3 * 2 * Len(strokes[i].points)
             /\ Len(strokes[i].coreMesh.position) = 3 * 2 * Len(strokes[i].points)
             /\ Len(strokes[i].energies) = Len(strokes[i].points)

\* the last step pushed a point to a stroke that already had its meshes
MeshesRebuiltWitness ==
    /\ addCall # NULL
    /\ addCall.outcome = "pushed"
    /\ addCall.store # <<>>
    /\ addCall.store[Len(addCall.store)].ribbonMesh # NULL
    /\ Len(strokes[Len(strokes)].points) >= 3

\* The elements of s at the even 0-based indices 0, 2, 4, ..., in order.
EvenIndexed(s) == [k \in 1..((Len(s) + 1) \div 2) |-> s[2 * k - 1]]

\* C33: in the single-curve class points and energies always have the same
\* length, at most MAX_POINTS; an addPoint whose push keeps the length
\* within MAX_POINTS appends the point and the energy, and one whose push
\* exceeds it leaves exactly the elements the pushed arrays held at the even
\* indices, in their order, the first point among them.
CurveCeiling ==
    /\ [](Len(points) = Len(energies) /\ Len(points) <= MAX_POINTS)
    /\ [][\A p \in CurvePoints, e \in CurveEnergies :
            AddPointCurve(p, e) =>
                IF Len(points) + 1 > MAX_POINTS
                THEN /\ points' = EvenIndexed(Append(points, p))
                     /\ energies' = EvenIndexed(Append(energies, e))
                     /\ points'[1] = points[1]
                ELSE /\ points' = Append(points, p)
                     /\ energies' = Append(energies, e)]_vars

\* the arrays after a decimation that dropped a point unlike its neighbours
CurveDecimatedWitness ==
    /\ lastDecimated
    /\ Len(points) = (MAX_POINTS + 2) \div 2
    /\ Len(points) >= 2
    /\ points[1] # points[2]
    /\ energies[1] # energies[2]

====
